---- MODULE Spec2Model ----
(***************************************************************************)
(* Applicant-tracking server, two backends:                                *)
(*   file backend      src/server.js          (applicants.json + assets)   *)
(*   document backend  src/unnamed/part_000   (Mongoose collection)        *)
(*                                                                         *)
(* Spec          the two backends driven in lock-step by the same request  *)
(*               sequence, one request at a time; uploads are received by  *)
(*               multer while other requests are served.                   *)
(* SpecFileConc  the file backend under concurrent requests on the Node    *)
(*               event loop (handlers are synchronous).                    *)
(* SpecDocConc   the document backend under concurrent requests (handlers  *)
(*               suspend at every await).                                  *)
(***************************************************************************)
EXTENDS Integers, Sequences, FiniteSets, TLC

\* ---------------------------------------------------------------- bounds
MaxApplicants == 2
MaxClock == 2
MsPerDay == 2
NumRequests == 2
MaxRequests == 3
MaxFaults == 1
MaxUploads == 1

\* ---------------------------------------------------------------- inputs
cA1 == [person |-> "Alice", text |-> "t1", date |-> "d"]
cA2 == [person |-> "Alice", text |-> "t2", date |-> "d"]
cB1 == [person |-> "Bob", text |-> "t1", date |-> "d"]

\* Comment bodies {person, text, date} (spec section 6).
CommentBodies == {cA1, cA2, cB1}

\* The fileName field of an upload: absent ("") or the stored name asked for.
FileNames == {"", "cv1.pdf"}

\* file.originalname of an uploaded file.
OriginalNames == {"resume.pdf"}

\* Request bodies of POST /api/applicants and PUT /api/applicants/:id:
\* partial applicant fields, a field the schema does not declare ("extra"),
\* bodies that carry id / dateAdded, and a body that carries comments.
Bodies ==
  { [notes |-> "y", resumePath |-> "applications/cv1.pdf"],
    [id |-> 2, dateAdded |-> "X", notes |-> "x", extra |-> "e"],
    [comments |-> <<cA1, cA2>>] }

\* Ids a client may put in the :id path segment.
PathIds == {1, 2}

\* Environment faults.  The first persistence operation of the handler fails:
\* "refused", the JSON write fails before applicants.json is opened (EPERM,
\* EACCES) and the first database call fails; "truncated", the JSON write
\* fails after fs.writeFileSync has opened the file with O_TRUNC (ENOSPC,
\* EDQUOT, EFBIG, EIO) and the first database call fails.  Or the second one
\* does: "second", the database call after the first, if the handler has one.
Faults == {"none", "refused", "truncated", "second"}

\* The faults the first persistence operation fails under.
FirstFaults == {"refused", "truncated"}

VARIABLES
  fileStore,   \* content of data/applicants.json: sequence of applicant objects
  files,       \* files present under public/ (relative paths)
  docStore,    \* documents of the applicants collection, natural order
  now,         \* Date.now()
  fileResp,    \* last response of the file backend
  docResp,     \* last response of the document backend
  lastReq,     \* the request served last
  nfaults,     \* environment faults injected so far
  nreq,        \* requests served so far
  uploading,   \* uploads multer is receiving: name, original name, stage
  pc,          \* per concurrent request: position of its handler
  req,         \* per concurrent request: the request
  snapshot,    \* per concurrent request: what its handler read / was returned
  resps,       \* per concurrent request: its response
  running      \* request whose handler occupies the call stack (0: none)

vars == <<fileStore, files, docStore, now, fileResp, docResp, lastReq, nfaults,
          nreq, uploading, pc, req, snapshot, resps, running>>

seqVars == <<fileStore, files, docStore, now, fileResp, docResp, lastReq, nfaults,
             nreq, uploading>>
concVars == <<pc, req, snapshot, resps, running>>

\* ------------------------------------------------------------- JS helpers

\* Object spread { ...a, ...b }.
Spread(a, b) ==
  [f \in (DOMAIN a) \cup (DOMAIN b) |-> IF f \in DOMAIN b THEN b[f] ELSE a[f]]

\* Date.now() at the next request: the same millisecond or the next one.
Ticks(t) == {u \in {t, t + 1} : u <= MaxClock}

\* new Date().toLocaleDateString() at clock value t.
DateOf(t) == "D" \o ToString(t \div MsPerDay)

\* applicants.findIndex(a => a.id === applicantId); 0 stands for -1.
FindIndex(applicants, applicantId) ==
  IF \E i \in 1..Len(applicants) : applicants[i].id = applicantId
  THEN CHOOSE i \in 1..Len(applicants) :
         /\ applicants[i].id = applicantId
         /\ \A j \in 1..(i - 1) : applicants[j].id # applicantId
  ELSE 0

\* applicants.splice(index, 1)
Splice(applicants, index) ==
  SubSeq(applicants, 1, index - 1) \o SubSeq(applicants, index + 1, Len(applicants))

\* Mutant of FilterPerson: the predicate inverted (=== for !==).
FilterPersonInverted(comments, person) ==
  SelectSeq(comments, LAMBDA c : c.person = person)

\* comments.filter(comment => comment.person !== person)
FilterPerson(comments, person) ==
  SelectSeq(comments, LAMBDA c : c.person # person)

Resp(status, json) == [status |-> status, json |-> json]

NotFound == Resp(404, [success |-> FALSE, error |-> "Applicant not found"])
Failure(msg) == Resp(500, [success |-> FALSE, error |-> msg])
Success == Resp(200, [success |-> TRUE])

\* ------------------------------------------------------------ file backend

\* if (applicant.resumePath): present and not the empty string.
HasResume(applicant) ==
  "resumePath" \in DOMAIN applicant /\ applicant.resumePath # ""

\* Mutant of UnlinkResume: the file is left in place.
UnlinkResumeSkipped(fs, applicant) == fs

\* if (fs.existsSync(p)) fs.unlinkSync(p), for one applicant.
UnlinkResume(fs, applicant) ==
  IF HasResume(applicant) THEN fs \ {applicant.resumePath} ELSE fs

\* applicants.forEach(unlink ...) of clear-all.
RECURSIVE UnlinkAll(_, _)
UnlinkAll(fs, applicants) ==
  IF applicants = <<>> THEN fs
  ELSE UnlinkAll(UnlinkResume(fs, Head(applicants)), Tail(applicants))

\* applicants[index].comments after the comment handler's filter and push.
MergeComment(applicant, body) ==
  LET existing == IF "comments" \in DOMAIN applicant
                  THEN applicant.comments ELSE <<>>
  IN  Append(FilterPerson(existing, body.person), body)

Out(store, fs, resp) == [store |-> store, files |-> fs, resp |-> resp]

\* writeApplicants(applicants) on a file that holds onDisk: its return value
\* and what readApplicants returns afterwards.  A write that fails once the
\* file is open leaves it empty or cut short; JSON.parse then throws and
\* readApplicants returns [] from its catch.
WriteApplicants(onDisk, applicants, fault) ==
  CASE fault = "refused" -> [ok |-> FALSE, store |-> onDisk]
    [] fault = "truncated" -> [ok |-> FALSE, store |-> <<>>]
    [] OTHER -> [ok |-> TRUE, store |-> applicants]

\* app.post('/api/applicants')
FilePost(applicants, fs, body, t, fault) ==
  LET newApplicant == Spread(body, [id |-> t, dateAdded |-> DateOf(t)])
      w == WriteApplicants(applicants, Append(applicants, newApplicant), fault)
  IN  IF w.ok
      THEN Out(w.store, fs,
               Resp(200, [success |-> TRUE, applicant |-> newApplicant]))
      ELSE Out(w.store, fs, Failure("Failed to save applicant"))

\* Mutant of FilePut: the spread reversed, { ...req.body, ...applicants[index] }.
FilePutReversed(applicants, fs, applicantId, body, fault) ==
  LET index == FindIndex(applicants, applicantId)
      updated == [applicants EXCEPT ![index] = Spread(body, @)]
  IN  IF index = 0 THEN [store |-> applicants, files |-> fs, resp |-> NotFound]
      ELSE IF fault \notin {"refused", "truncated"}
      THEN [store |-> updated, files |-> fs,
            resp |-> Resp(200, [success |-> TRUE, applicant |-> updated[index]])]
      ELSE [store |-> IF fault = "refused" THEN applicants ELSE <<>>,
            files |-> fs,
            resp |-> Failure("Failed to update applicant")]

\* app.put('/api/applicants/:id')
FilePut(applicants, fs, applicantId, body, fault) ==
  LET index == FindIndex(applicants, applicantId)
      updated == [applicants EXCEPT ![index] = Spread(@, body)]
      w == WriteApplicants(applicants, updated, fault)
  IN  IF index = 0 THEN Out(applicants, fs, NotFound)
      ELSE IF w.ok
      THEN Out(w.store, fs,
               Resp(200, [success |-> TRUE, applicant |-> updated[index]]))
      ELSE Out(w.store, fs, Failure("Failed to update applicant"))

\* app.delete('/api/applicants/:id'): the file is unlinked before the write.
FileDelete(applicants, fs, applicantId, fault) ==
  LET index == FindIndex(applicants, applicantId)
  IN  IF index = 0 THEN Out(applicants, fs, NotFound)
      ELSE LET fs2 == UnlinkResume(fs, applicants[index])
               w == WriteApplicants(applicants, Splice(applicants, index), fault)
           IN  IF w.ok
               THEN Out(w.store, fs2, Success)
               ELSE Out(w.store, fs2, Failure("Failed to delete applicant"))

\* app.post('/api/applicants/:id/comments')
FileComment(applicants, fs, applicantId, body, fault) ==
  LET index == FindIndex(applicants, applicantId)
      updated == [applicants EXCEPT ![index] =
                    Spread(@, [comments |-> MergeComment(@, body)])]
      w == WriteApplicants(applicants, updated, fault)
  IN  IF index = 0 THEN Out(applicants, fs, NotFound)
      ELSE IF w.ok
      THEN Out(w.store, fs, Resp(200, [success |-> TRUE, comment |-> body]))
      ELSE Out(w.store, fs, Failure("Failed to add comment"))

\* app.delete('/api/clear-all'): every file is unlinked before the write.
FileClear(applicants, fs, fault) ==
  LET fs2 == UnlinkAll(fs, applicants)
      w == WriteApplicants(applicants, <<>>, fault)
  IN  IF w.ok THEN Out(w.store, fs2, Success)
      ELSE Out(w.store, fs2, Failure("Failed to clear applicants"))

\* storage.filename: req.body.fileName || `${Date.now()}_${file.originalname}`
\* ("" stands for an absent fileName field).
UniqueName(fileName, originalname, t) ==
  IF fileName # "" THEN fileName ELSE ToString(t) \o "_" \o originalname

\* fileFilter: file.mimetype === 'application/pdf'
FileFilter(kind) == kind = "pdf"

\* The answer to an upload fileFilter rejected: multer passes the Error to
\* Express, whose default error handler answers 500 with an error page (not
\* JSON); the route handler does not run.
ErrorPage == Resp(500, [page |-> "Error: Only PDF files are allowed"])

\* req.file of a request that carried no file.
NoFile == [filename |-> "", originalname |-> ""]

\* The route handler of app.post('/api/upload-resume'), given req.file.
FileUpload(file) ==
  IF file = NoFile
  THEN Resp(400, [success |-> FALSE, error |-> "No file uploaded"])
  ELSE Resp(200, [success |-> TRUE,
                  filePath |-> "applications/" \o file.filename,
                  fileName |-> file.filename,
                  originalName |-> file.originalname])

\* -------------------------------------------------------- document backend

\* Paths declared by applicantSchema / commentSchema (those the requests of
\* this model can carry); strict mode drops every other field.
SchemaPaths == {"id", "notes", "resumePath", "dateAdded", "comments"}
CommentPaths == {"person", "text", "date"}

\* Cast of one comment to commentSchema ({ _id: false }).
CastComment(c) == [f \in (DOMAIN c) \cap CommentPaths |-> c[f]]

RECURSIVE CastComments(_)
CastComments(cs) ==
  IF cs = <<>> THEN <<>>
  ELSE <<CastComment(Head(cs))>> \o CastComments(Tail(cs))

\* Cast of an object to applicantSchema: undeclared fields are dropped.
CastDoc(obj) ==
  [f \in (DOMAIN obj) \cap SchemaPaths |->
     IF f = "comments" THEN CastComments(obj[f]) ELSE obj[f]]

\* new Applicant(obj) after save(): array default [], _id and __v added.
\* The ObjectId is opaque: only its presence is modelled.
NewDocument(obj) ==
  Spread([comments |-> <<>>, _id |-> "ObjectId", __v |-> 0], CastDoc(obj))

\* unique: true on id: the write is rejected with E11000 when another
\* document holds the id.
IdTaken(docs, id, except) ==
  \E j \in 1..Len(docs) : j # except /\ docs[j].id = id

DbError == Failure("db error")
DuplicateKey == Failure("E11000 duplicate key error")

DOut(store, resp) == [store |-> store, resp |-> resp]

\* app.get('/api/applicants')
DocList(docs, dok) ==
  IF dok THEN DOut(docs, Resp(200, docs))
  ELSE DOut(docs, Resp(500, [error |-> "Failed to fetch applicants"]))

\* app.post('/api/applicants')
DocPost(docs, body, t, dok) ==
  LET newApplicant ==
        NewDocument(Spread(body, [id |-> t, dateAdded |-> DateOf(t)]))
  IN  IF ~dok THEN DOut(docs, DbError)
      ELSE IF IdTaken(docs, newApplicant.id, 0) THEN DOut(docs, DuplicateKey)
      ELSE DOut(Append(docs, newApplicant),
                Resp(200, [success |-> TRUE, applicant |-> newApplicant]))

\* app.put('/api/applicants/:id'): findOneAndUpdate({id}, {$set: body}).
DocPut(docs, applicantId, body, dok) ==
  LET index == FindIndex(docs, applicantId)
      set == CastDoc(body)
      updated == [docs EXCEPT ![index] = Spread(@, set)]
  IN  IF ~dok THEN DOut(docs, DbError)
      ELSE IF index = 0 THEN DOut(docs, NotFound)
      ELSE IF "id" \in DOMAIN set /\ IdTaken(docs, set.id, index)
      THEN DOut(docs, DuplicateKey)
      ELSE DOut(updated,
                Resp(200, [success |-> TRUE, applicant |-> updated[index]]))

\* app.delete('/api/applicants/:id'): deleteOne({id}).
DocDelete(docs, applicantId, dok) ==
  LET index == FindIndex(docs, applicantId)
  IN  IF ~dok THEN DOut(docs, DbError)
      ELSE IF index = 0 THEN DOut(docs, NotFound)
      ELSE DOut(Splice(docs, index), Success)

\* updateOne({id}, {$pull: {comments: {person}}}) applied by the database.
Pull(docs, applicantId, person) ==
  LET index == FindIndex(docs, applicantId)
  IN  IF index = 0 THEN docs
      ELSE [docs EXCEPT ![index].comments = FilterPerson(@, person)]

\* findOneAndUpdate({id}, {$push: {comments: body}}) applied by the database.
Push(docs, applicantId, body) ==
  LET index == FindIndex(docs, applicantId)
  IN  IF index = 0 THEN docs
      ELSE [docs EXCEPT ![index].comments = Append(@, CastComment(body))]

\* app.post('/api/applicants/:id/comments'): pull, then push.
DocComment(docs, applicantId, body, dok1, dok2) ==
  LET pulled == Pull(docs, applicantId, body.person)
      pushed == Push(pulled, applicantId, body)
  IN  IF ~dok1 THEN DOut(docs, DbError)
      ELSE IF ~dok2 THEN DOut(pulled, DbError)
      ELSE IF FindIndex(pulled, applicantId) = 0 THEN DOut(pushed, NotFound)
      ELSE DOut(pushed, Resp(200, [success |-> TRUE, comment |-> body]))

\* app.delete('/api/clear-all'): deleteMany({}).
DocClear(docs, dok) ==
  IF dok THEN DOut(<<>>, Success) ELSE DOut(docs, DbError)

\* ------------------------------------------- lock-step sequential requests

NoResp == Resp(0, <<>>)

\* A request as the server receives it: route, :id, body, and the fault the
\* environment inflicts on its handler.
Request(op, id, body, fault) ==
  [op |-> op, id |-> id, body |-> body, fault |-> fault]

ConcIdle ==
  /\ pc = [r \in 1..NumRequests |-> "unused"]
  /\ req = [r \in 1..NumRequests |-> <<>>]
  /\ snapshot = [r \in 1..NumRequests |-> <<>>]
  /\ resps = [r \in 1..NumRequests |-> NoResp]
  /\ running = 0

Init ==
  /\ fileStore = <<>>
  /\ files = {}
  /\ docStore = <<>>
  /\ now = 1
  /\ fileResp = NoResp
  /\ docResp = NoResp
  /\ lastReq = Request("init", 0, <<>>, "none")
  /\ nfaults = 0
  /\ nreq = 0
  /\ uploading = <<>>
  /\ ConcIdle

\* One request served by both backends.
Serve(q, f, d) ==
  /\ nreq < MaxRequests
  /\ nreq' = nreq + 1
  /\ q.fault # "none" => nfaults < MaxFaults
  /\ nfaults' = IF q.fault = "none" THEN nfaults ELSE nfaults + 1
  /\ lastReq' = q
  /\ fileStore' = f.store
  /\ files' = f.files
  /\ fileResp' = f.resp
  /\ docStore' = d.store
  /\ docResp' = d.resp
  /\ UNCHANGED uploading
  /\ UNCHANGED concVars

\* GET /api/applicants
List(fault) ==
  /\ Serve(Request("list", 0, <<>>, fault),
           Out(fileStore, files, Resp(200, fileStore)),
           DocList(docStore, fault \notin FirstFaults))
  /\ UNCHANGED now

\* POST /api/applicants at clock value t
Create(body, t, fault) ==
  /\ Len(fileStore) < MaxApplicants
  /\ Len(docStore) < MaxApplicants
  /\ now' = t
  /\ Serve(Request("create", 0, body, fault),
           FilePost(fileStore, files, body, t, fault),
           DocPost(docStore, body, t, fault \notin FirstFaults))

\* PUT /api/applicants/:id
Update(id, body, fault) ==
  /\ Serve(Request("update", id, body, fault),
           FilePut(fileStore, files, id, body, fault),
           DocPut(docStore, id, body, fault \notin FirstFaults))
  /\ UNCHANGED now

\* DELETE /api/applicants/:id
Delete(id, fault) ==
  /\ Serve(Request("delete", id, <<>>, fault),
           FileDelete(fileStore, files, id, fault),
           DocDelete(docStore, id, fault \notin FirstFaults))
  /\ UNCHANGED now

\* POST /api/applicants/:id/comments
Comment(id, body, fault) ==
  /\ Serve(Request("comment", id, body, fault),
           FileComment(fileStore, files, id, body, fault),
           DocComment(docStore, id, body, fault \notin FirstFaults, fault # "second"))
  /\ UNCHANGED now

\* DELETE /api/clear-all
ClearAll(fault) ==
  /\ Serve(Request("clear", 0, <<>>, fault),
           FileClear(fileStore, files, fault),
           DocClear(docStore, fault \notin FirstFaults))
  /\ UNCHANGED now

\* POST /api/upload-resume (file backend only).  upload.single('file') runs
\* before the route handler and works asynchronously: between its steps the
\* event loop serves other requests.

\* Whether storage.filename reads Date.now(): the || found no
\* req.body.fileName.
ReadsClock(fileName) == fileName = ""

\* The uploading sequence without its i-th entry.
Finished(i) == SubSeq(uploading, 1, i - 1) \o SubSeq(uploading, i + 1, Len(uploading))

\* The file part of a PDF arrives: fileFilter accepts it and storage.filename
\* fixes the name, reading the clock (value t) if it needs it; the write
\* stream is created, the file is not opened yet.
UploadBegin(fileName, originalname, t) ==
  /\ nreq < MaxRequests
  /\ Len(uploading) < MaxUploads
  /\ FileFilter("pdf")
  /\ t \in (IF ReadsClock(fileName) THEN Ticks(now) ELSE {now})
  /\ nreq' = nreq + 1
  /\ now' = t
  /\ uploading' = Append(uploading,
                         [filename |-> UniqueName(fileName, originalname, t),
                          originalname |-> originalname, stage |-> "named"])
  /\ lastReq' = Request("multer", 0, <<>>, "none")
  /\ UNCHANGED <<fileStore, files, docStore, fileResp, docResp, nfaults>>
  /\ UNCHANGED concVars

\* The write stream opens public/applications/<filename>: the file exists
\* from here on, multer writes the chunks into it.
UploadOpen(i) ==
  /\ uploading[i].stage = "named"
  /\ files' = files \cup {"applications/" \o uploading[i].filename}
  /\ uploading' = [uploading EXCEPT ![i].stage = "open"]
  /\ lastReq' = Request("multer", 0, <<>>, "none")
  /\ UNCHANGED <<fileStore, docStore, now, fileResp, docResp, nfaults, nreq>>
  /\ UNCHANGED concVars

\* The stream has finished: multer sets req.file and the route handler
\* answers.  Whether the file is still there is not looked at.
UploadAnswer(i) ==
  /\ uploading[i].stage = "open"
  /\ fileResp' = FileUpload([filename |-> uploading[i].filename,
                             originalname |-> uploading[i].originalname])
  /\ uploading' = Finished(i)
  /\ lastReq' = Request("upload", 0, uploading[i], "none")
  /\ UNCHANGED <<fileStore, files, docStore, now, docResp, nfaults, nreq>>
  /\ UNCHANGED concVars

\* An upload whose file is not a PDF (kind "other": fileFilter rejects it)
\* or that carries no file (kind "none": the route handler finds no
\* req.file).  Nothing is named, read or stored before the answer.
UploadRefused(kind) ==
  /\ nreq < MaxRequests
  /\ kind = "other" => ~FileFilter(kind)
  /\ nreq' = nreq + 1
  /\ fileResp' = IF kind = "other" THEN ErrorPage ELSE FileUpload(NoFile)
  /\ lastReq' = Request("upload", 0, [kind |-> kind], "none")
  /\ UNCHANGED <<fileStore, files, docStore, now, docResp, nfaults, uploading>>
  /\ UNCHANGED concVars

Next ==
  \/ \E fault \in {"none", "refused"} : List(fault)
  \/ \E body \in Bodies, t \in Ticks(now), fault \in Faults \ {"second"} :
       Create(body, t, fault)
  \/ \E id \in PathIds, body \in Bodies, fault \in Faults \ {"second"} :
       Update(id, body, fault)
  \/ \E id \in PathIds, fault \in Faults \ {"second"} : Delete(id, fault)
  \/ \E id \in PathIds, body \in CommentBodies, fault \in Faults :
       Comment(id, body, fault)
  \/ \E fault \in Faults \ {"second"} : ClearAll(fault)
  \/ \E fileName \in FileNames, originalname \in OriginalNames, t \in Ticks(now) :
       UploadBegin(fileName, originalname, t)
  \/ \E i \in 1..Len(uploading) : UploadOpen(i)
  \/ \E i \in 1..Len(uploading) : UploadAnswer(i)
  \/ \E kind \in {"other", "none"} : UploadRefused(kind)

Spec == Init /\ [][Next]_vars

\* ------------------------------------- file backend, concurrent requests
\* Node runs one handler at a time: a handler keeps the call stack until it
\* returns or awaits.  The file-backend handlers call readApplicants and
\* writeApplicants (fs.readFileSync / fs.writeFileSync) and never await.

Requests == 1..NumRequests

\* Stored records at the start of the concurrent runs.
BaseFile ==
  << [id |-> 1, dateAdded |-> DateOf(1), notes |-> "x"],
     [id |-> 2, dateAdded |-> DateOf(2), comments |-> <<cA1>>] >>

BaseDocs ==
  << NewDocument([id |-> 1, dateAdded |-> DateOf(1), notes |-> "x",
                  comments |-> <<cA1>>]) >>

FileRequests ==
       [op : {"update"}, id : PathIds, body : {[notes |-> "y"], [dateAdded |-> "X"]}]
  \cup [op : {"comment"}, id : PathIds, body : CommentBodies]
  \cup [op : {"delete"}, id : PathIds]
  \cup [op : {"create"}, body : {[notes |-> "y"]}]

DocRequests ==
       [op : {"comment"}, id : {1}, body : CommentBodies]
  \cup [op : {"list"}]

\* Mutant of AfterRead: the read awaited (fs.promises.readFile), the call
\* stack released.
AfterReadAwaited(r) == 0

\* Who holds the call stack once readApplicants has returned in the handler
\* of request r: the handler itself (readFileSync blocks, nothing is awaited).
AfterRead(r) == r

\* The route handler of request q applied to the applicants it read.
FileHandle(q, applicants, fs, t, fault) ==
  CASE q.op = "update" -> FilePut(applicants, fs, q.id, q.body, fault)
    [] q.op = "comment" -> FileComment(applicants, fs, q.id, q.body, fault)
    [] q.op = "delete" -> FileDelete(applicants, fs, q.id, fault)
    [] q.op = "create" -> FilePost(applicants, fs, q.body, t, fault)

ConcInit(store, dstore) ==
  /\ fileStore = store
  /\ files = {}
  /\ docStore = dstore
  /\ now = MaxClock
  /\ fileResp = NoResp
  /\ docResp = NoResp
  /\ lastReq = Request("init", 0, <<>>, "none")
  /\ nfaults = 0
  /\ nreq = 0
  /\ uploading = <<>>
  /\ pc = [r \in Requests |-> "new"]
  /\ req = [r \in Requests |-> <<>>]
  /\ snapshot = [r \in Requests |-> <<>>]
  /\ resps = [r \in Requests |-> NoResp]
  /\ running = 0

InitFileConc == ConcInit(BaseFile, <<>>)

\* Request r reaches the server; its handler is queued on the event loop.
Arrive(r, q) ==
  /\ pc[r] = "new"
  /\ pc' = [pc EXCEPT ![r] = "inflight"]
  /\ req' = [req EXCEPT ![r] = q]
  /\ UNCHANGED <<seqVars, snapshot, resps, running>>

\* The handler of r starts when the call stack is empty and reads the file.
FRead(r) ==
  /\ pc[r] = "inflight"
  /\ running = 0
  /\ snapshot' = [snapshot EXCEPT ![r] = fileStore]
  /\ pc' = [pc EXCEPT ![r] = "read"]
  /\ running' = AfterRead(r)
  /\ UNCHANGED <<seqVars, req, resps>>

\* The handler of r goes on from what it read: unlinks, writes, responds.
\* A handler that answers 404 has returned before writeApplicants; the
\* others leave in the file what writeApplicants left there.
FWrite(r, fault) ==
  /\ pc[r] = "read"
  /\ running \in {0, r}
  /\ LET out == FileHandle(req[r], snapshot[r], files, now, fault)
     IN  /\ fileStore' = IF out.resp.status = 404 THEN fileStore
                         ELSE WriteApplicants(fileStore, out.store, fault).store
         /\ files' = out.files
         /\ resps' = [resps EXCEPT ![r] = out.resp]
  /\ pc' = [pc EXCEPT ![r] = "done"]
  /\ running' = 0
  /\ UNCHANGED <<docStore, now, fileResp, docResp, lastReq, nfaults, nreq,
                 uploading, req,
                 snapshot>>

NextFileConc ==
  \/ \E r \in Requests, q \in FileRequests : Arrive(r, q)
  \/ \E r \in Requests : FRead(r)
  \/ \E r \in Requests, fault \in Faults \ {"second"} : FWrite(r, fault)

SpecFileConc == InitFileConc /\ [][NextFileConc]_vars

\* --------------------------------- document backend, concurrent requests
\* Every database call is awaited: the handler suspends, the database
\* applies the operation atomically, other handlers run in between.

InitDocConc == ConcInit(<<>>, BaseDocs)

DArrive(r, q) ==
  /\ pc[r] = "new"
  /\ pc' = [pc EXCEPT ![r] = "inflight"]
  /\ req' = [req EXCEPT ![r] = q]
  /\ UNCHANGED <<seqVars, snapshot, resps, running>>

\* await Applicant.find({}).lean(); res.json(applicants)
DFind(r) ==
  /\ pc[r] = "inflight"
  /\ req[r].op = "list"
  /\ snapshot' = [snapshot EXCEPT ![r] = docStore]
  /\ resps' = [resps EXCEPT ![r] = Resp(200, docStore)]
  /\ pc' = [pc EXCEPT ![r] = "done"]
  /\ UNCHANGED <<seqVars, req, running>>

\* await Applicant.updateOne({id}, {$pull: ...})
DPull(r) ==
  /\ pc[r] = "inflight"
  /\ req[r].op = "comment"
  /\ docStore' = Pull(docStore, req[r].id, req[r].body.person)
  /\ pc' = [pc EXCEPT ![r] = "pulled"]
  /\ UNCHANGED <<fileStore, files, now, fileResp, docResp, lastReq, nfaults,
                 nreq, uploading, req, snapshot, resps, running>>

\* await Applicant.findOneAndUpdate({id}, {$push: ...}); respond
DPush(r) ==
  /\ pc[r] = "pulled"
  /\ docStore' = Push(docStore, req[r].id, req[r].body)
  /\ resps' = [resps EXCEPT ![r] =
                IF FindIndex(docStore, req[r].id) = 0 THEN NotFound
                ELSE Resp(200, [success |-> TRUE, comment |-> req[r].body])]
  /\ pc' = [pc EXCEPT ![r] = "done"]
  /\ UNCHANGED <<fileStore, files, now, fileResp, docResp, lastReq, nfaults,
                 nreq, uploading, req, snapshot, running>>

NextDocConc ==
  \/ \E r \in Requests, q \in DocRequests : DArrive(r, q)
  \/ \E r \in Requests : DFind(r)
  \/ \E r \in Requests : DPull(r)
  \/ \E r \in Requests : DPush(r)

SpecDocConc == InitDocConc /\ [][NextDocConc]_vars

\* ================================================================= claims

\* The comment sequence of a record; a record without the field has none.
CommentsOf(a) == IF "comments" \in DOMAIN a THEN a.comments ELSE <<>>

\* mergeComment of spec section 4.2, stated on its own.
RECURSIVE WithoutPerson(_, _)
WithoutPerson(C, p) ==
  IF C = <<>> THEN <<>>
  ELSE IF Head(C).person = p THEN WithoutPerson(Tail(C), p)
  ELSE <<Head(C)>> \o WithoutPerson(Tail(C), p)

mergeComment(C, c) == WithoutPerson(C, c.person) \o <<c>>

UniquePersons(C) ==
  \A i, j \in 1..Len(C) : i # j => C[i].person # C[j].person

Stored(store, id) == \E i \in 1..Len(store) : store[i].id = id

\* C1: in every reachable state of either backend every stored applicant's
\* comment sequence holds at most one comment per person.
C1_Original ==
  /\ \A i \in 1..Len(fileStore) : UniquePersons(CommentsOf(fileStore[i]))
  /\ \A i \in 1..Len(docStore) : UniquePersons(CommentsOf(docStore[i]))

\* C2: a comment request with body c on an existing applicant with comment
\* sequence C, answered with success, leaves that applicant's comments equal
\* to C without the entries of c.person, in their order, followed by c; in
\* both backends.  Without a fault a request on an existing applicant is
\* answered with success.
C2_CommentReplaces ==
  [][lastReq'.op = "comment" =>
       LET id == lastReq'.id
           body == lastReq'.body
           fault == lastReq'.fault
       IN
         /\ fileResp'.status = 200 =>
              /\ Stored(fileStore, id)
              /\ LET i == FindIndex(fileStore, id)
                 IN  fileStore'[i].comments =
                       mergeComment(CommentsOf(fileStore[i]), body)
         /\ docResp'.status = 200 =>
              /\ Stored(docStore, id)
              /\ LET i == FindIndex(docStore, id)
                 IN  docStore'[i].comments =
                       mergeComment(CommentsOf(docStore[i]), body)
         /\ (fault = "none" /\ Stored(fileStore, id)) => fileResp'.status = 200
         /\ (fault = "none" /\ Stored(docStore, id)) => docResp'.status = 200
    ]_vars

\* An applicant created with two comments of Alice, then a comment of Bob,
\* then Alice again: exactly [Bob, Alice] with the text Alice sent last, in
\* both backends.
C2_Witness ==
  /\ lastReq.op = "comment"
  /\ lastReq.body = cA1
  /\ nfaults = 0
  /\ fileResp.status = 200
  /\ docResp.status = 200
  /\ Len(fileStore) = 1
  /\ Len(docStore) = 1
  /\ CommentsOf(fileStore[1]) = <<cB1, cA1>>
  /\ CommentsOf(docStore[1]) = <<cB1, cA1>>

\* The fields of `after` are those of `before` overwritten by `set`.
Overwritten(before, after, set) ==
  /\ DOMAIN after = (DOMAIN before) \cup (DOMAIN set)
  /\ \A f \in DOMAIN set : after[f] = set[f]
  /\ \A f \in (DOMAIN before) \ (DOMAIN set) : after[f] = before[f]

\* Only record i of the store changed; order and length are kept.
OnlyRecord(before, after, i) ==
  /\ Len(after) = Len(before)
  /\ \A j \in 1..Len(before) : j # i => after[j] = before[j]

\* Bodies made of applicant fields only (spec section 6: partial Applicant
\* fields).
ApplicantBodies == {b \in Bodies : DOMAIN b \subseteq SchemaPaths}

\* C3: an update whose id matches no stored record answers 404 and leaves
\* every record unchanged; an update whose id matches a stored record is
\* answered with success unless persistence fails, and then it has
\* overwritten exactly the body's fields on the first matching record and
\* left its other fields, the other records and the order unchanged (file
\* backend: every body; document backend: bodies of applicant fields).
C3_UpdateFrame ==
  [][lastReq'.op = "update" =>
       LET id == lastReq'.id
           body == lastReq'.body
           fault == lastReq'.fault
       IN
         /\ ~Stored(fileStore, id) =>
              fileResp'.status = 404 /\ fileStore' = fileStore
         /\ (~Stored(docStore, id) /\ fault = "none") =>
              docResp'.status = 404 /\ docStore' = docStore
         /\ (Stored(fileStore, id) /\ fault = "none") => fileResp'.status = 200
         /\ (Stored(docStore, id) /\ fault = "none"
               /\ ~("id" \in DOMAIN body
                      /\ IdTaken(docStore, body.id, FindIndex(docStore, id))))
              => docResp'.status = 200
         /\ fileResp'.status = 200 =>
              LET i == FindIndex(fileStore, id)
              IN  /\ OnlyRecord(fileStore, fileStore', i)
                  /\ Overwritten(fileStore[i], fileStore'[i], body)
                  /\ fileResp'.json.applicant = fileStore'[i]
         /\ (docResp'.status = 200 /\ body \in ApplicantBodies) =>
              LET i == FindIndex(docStore, id)
              IN  /\ OnlyRecord(docStore, docStore', i)
                  /\ Overwritten(docStore[i], docStore'[i], body)
                  /\ docResp'.json.applicant = docStore'[i]
         /\ files' = files
    ]_vars

\* An update of the first of two records succeeded in both backends and the
\* record now carries the body's notes.
C3_Witness ==
  /\ lastReq.op = "update"
  /\ nfaults = 0
  /\ fileResp.status = 200
  /\ docResp.status = 200
  /\ Len(fileStore) = 2
  /\ Len(docStore) = 2
  /\ fileResp.json.applicant = fileStore[1]
  /\ "notes" \in DOMAIN fileStore[1]
  /\ fileStore[1].notes = "y"
  /\ docStore[1].notes = "y"

\* C4: update and comment requests never change a stored record's id or
\* dateAdded.
C4_Original ==
  [][lastReq'.op \in {"update", "comment"} =>
       /\ Len(fileStore') = Len(fileStore)
       /\ \A i \in 1..Len(fileStore) :
            /\ fileStore'[i].id = fileStore[i].id
            /\ fileStore'[i].dateAdded = fileStore[i].dateAdded
       /\ Len(docStore') = Len(docStore)
       /\ \A i \in 1..Len(docStore) :
            /\ docStore'[i].id = docStore[i].id
            /\ docStore'[i].dateAdded = docStore[i].dateAdded
    ]_vars

References(store, path) ==
  \E j \in 1..Len(store) : HasResume(store[j]) /\ store[j].resumePath = path

\* C5: file backend: a resume file is removed only when the record that
\* references it is removed, so a stored record's resumePath that referenced
\* an existing file keeps referencing one (requests whose JSON write fails
\* included).
C5_Original ==
  [][\A path \in files : path \notin files' => ~References(fileStore', path)]_vars

\* C6: file backend: after a delete-by-id answered with success the record
\* is gone from what list returns and its resume file no longer exists; a
\* record without resumePath is removed alone, the files stay as they were;
\* after a clear-all answered with success list returns the empty sequence
\* and no file a record referenced exists.
C6_DeleteRemoves ==
  [][/\ (lastReq'.op = "delete" /\ fileResp'.status = 200) =>
          /\ Stored(fileStore, lastReq'.id)
          /\ LET i == FindIndex(fileStore, lastReq'.id)
                 gone == fileStore[i]
             IN  /\ Len(fileStore') = Len(fileStore) - 1
                 /\ \A j \in 1..Len(fileStore') :
                      fileStore'[j] = fileStore[IF j < i THEN j ELSE j + 1]
                 /\ HasResume(gone) => gone.resumePath \notin files'
                 /\ HasResume(gone) => files' = files \ {gone.resumePath}
                 /\ ~HasResume(gone) => files' = files
     /\ (lastReq'.op = "clear" /\ fileResp'.status = 200) =>
          /\ fileStore' = <<>>
          /\ \A j \in 1..Len(fileStore) :
               HasResume(fileStore[j]) => fileStore[j].resumePath \notin files'
     /\ lastReq'.op = "list" =>
          (fileResp'.status = 200 /\ fileResp'.json = fileStore /\ fileStore' = fileStore)
    ]_vars

\* A delete-by-id answered with success removed the only record, which had
\* no resumePath, and left the uploaded file where it was.
C6_Witness ==
  /\ lastReq.op = "delete"
  /\ fileResp.status = 200
  /\ fileStore = <<>>
  /\ uploading = <<>>
  /\ files = {"applications/cv1.pdf"}

\* C7: a request answered 404 or 500 leaves the stored records of its
\* backend, comment sequences included, as they were.
C7_Original ==
  [][/\ fileResp'.status \in {404, 500} => fileStore' = fileStore
     /\ docResp'.status \in {404, 500} => docStore' = docStore
    ]_vars

\* C9: without faults both backends answer every list, create, update,
\* delete, comment and clear-all request alike and store the same records.
C9_Original ==
  (nfaults = 0 /\ lastReq.op \in {"list", "create", "update", "delete", "comment", "clear"})
    => (fileResp = docResp /\ fileStore = docStore)

\* ---- document backend, concurrent requests

CommentRequests == {r \in Requests : pc[r] # "new" /\ req[r].op = "comment"}

\* The comment sequences mergeComment yields for the requests of S applied
\* to `base` one after the other, in every order.
RECURSIVE SerialComments(_, _)
SerialComments(base, S) ==
  IF S = {} THEN {base}
  ELSE UNION { { mergeComment(C, req[r].body) : C \in SerialComments(base, S \ {r}) }
               : r \in S }

\* C8: every comment sequence a list request returns, and the stored
\* sequence once all requests are answered, is what mergeComment yields for
\* comment requests applied in some serial order.
C8_Original ==
  /\ \A r \in Requests :
       (pc[r] = "done" /\ req[r].op = "list") =>
         \E S \in SUBSET CommentRequests :
           snapshot[r][1].comments \in SerialComments(BaseDocs[1].comments, S)
  /\ (\A r \in Requests : pc[r] = "done") =>
       docStore[1].comments \in SerialComments(BaseDocs[1].comments, CommentRequests)

\* ---- file backend, concurrent requests

\* The stored records after the requests of S ran one after the other with
\* no write failing, in every order.
RECURSIVE SerialStores(_, _)
SerialStores(base, S) ==
  IF S = {} THEN {base}
  ELSE UNION { { FileHandle(req[r], st, {}, now, "none").store
                   : st \in SerialStores(base, S \ {r}) }
               : r \in S }

\* C10 as stated: while one request is between its read and its write, the
\* read of another request in flight can take place.
C10_Original ==
  \A r1, r2 \in Requests :
    (r1 # r2 /\ pc[r1] = "read" /\ pc[r2] = "inflight") => ENABLED FRead(r2)

\* C10 amended: no request reads the file between another request's read
\* and write; what a handler read is what the file holds when it writes; and
\* once all requests are answered, none with a failed write, the stored
\* records are those of the requests run one after the other in some order
\* (no lost update).
C10_NoLostUpdate ==
  /\ \A r \in Requests :
       pc[r] = "read" => (running = r /\ snapshot[r] = fileStore)
  /\ Cardinality({r \in Requests : pc[r] = "read"}) <= 1
  /\ (\A r \in Requests : pc[r] = "done" /\ resps[r].status # 500) =>
       fileStore \in SerialStores(BaseFile, Requests)

\* Two requests on the same record in flight together, one of them between
\* its read and its write.
C10_Witness ==
  /\ pc[1] = "read"
  /\ pc[2] = "inflight"
  /\ req[1].op = "update"
  /\ req[2].op = "comment"
  /\ req[1].id = req[2].id

====
